---- MODULE Spec2Model ----
(***************************************************************************)
(* Corporate-Vacation-Agent: the balance ledger (src/src/database_tool.py), *)
(* the rule evaluator (src/src/policy_rag.py) and the decision orchestrator *)
(* (src/src/vacation_agent.py) as a state machine.                          *)
(*                                                                          *)
(* Conventions of the model                                                 *)
(*  - hours and days are integers: every quantity the code computes is a    *)
(*    multiple of 8 hours because days_requested is a whole number of days  *)
(*    ((end_date - start_date).days + 1), so round(x, 2) and x / 8.0 are    *)
(*    exact.                                                                *)
(*  - a date is its ordinal day of the year 2024 (1 = 2024-01-01); an ISO   *)
(*    date string "2024-03-18" is the tuple <<2024, 3, 18>>.                *)
(*  - annual_quota * 0.6 is kept in tenths of a day (annual_quota * 6).     *)
(*  - a dict is a record; d.get(k, default) is Get(d, k, default).          *)
(***************************************************************************)
EXTENDS Integers, Sequences, FiniteSets, TLC

VARIABLES
    columns,          \* PRAGMA table_info(employees): the column names of the employees table
    employees,        \* the employees table: employee_id -> row (column -> value)
    leave_requests,   \* the leave_requests table, in insertion (request_id) order
    result,           \* the value returned by the most recent call
    call,             \* the most recent call: its name and arguments
    pre_employees,    \* the employees table as it was when the most recent call began
    pre_requests,     \* the leave_requests table as it was when the most recent call began
    n_calls,          \* number of record_leave_request calls made by the callers so far
    sessions          \* st.session_state of each browser session: the request it has checked

vars == <<columns, employees, leave_requests, result, call, pre_employees, pre_requests, n_calls,
          sessions>>

----------------------------------------------------------------------------
(* Bounds of the model *)

\* number of committing calls (record_leave_request by a caller, or a manager
\* auto-approval) in one run, on top of the history the run starts with
MaxCalls == 1

\* number of approvals committed from the request form's sessions in one run
MaxCommits == 2

----------------------------------------------------------------------------
(* Program constants *)

HoursPerDay == 8
DefaultAnnualQuota == 20
SickQuotaDays == 8
SickAccruedDefault == 64
LongNoticeDays == 14
ShortNoticeDays == 5
LongNoticeThreshold == 3
BlackoutExemptDays == 3
LongVacationDays == 7
FrequencyWindowDays == 60
FrequencyLimit == 2
MaxConsecutiveDefault == 10
SixtyPercentTenths == 6

\* Python's None: the value with no keys
None == <<>>
IsNone(x) == DOMAIN x = {}

\* the browser sessions; a session that holds no checked request holds None
SessionIds == {"s1", "s2"}
NoSessions == [s \in SessionIds |-> None]

Max(a, b) == IF a >= b THEN a ELSE b
Min(a, b) == IF a <= b THEN a ELSE b

\* d.get(k, default)
Get(d, k, default) == IF k \in DOMAIN d THEN d[k] ELSE default

\* Python's "x or default" on a number
OrDefault(x, default) == IF x = 0 THEN default ELSE x

----------------------------------------------------------------------------
(* Dates *)

DaysInMonth == <<31, 29, 31, 30, 31, 30, 31, 31, 30, 31, 30, 31>>

RECURSIVE DaysBeforeMonthFrom(_)
DaysBeforeMonthFrom(m) == IF m <= 1 THEN 0 ELSE DaysBeforeMonthFrom(m - 1) + DaysInMonth[m - 1]

\* number of days of 2024 before the first of month m
DaysBeforeMonth == [m \in 1..12 |-> DaysBeforeMonthFrom(m)]

\* datetime.strptime(s, "%Y-%m-%d").date() for a date of 2024
ParseDate(iso) == DaysBeforeMonth[iso[2]] + iso[3]

\* the month of each day of 2024
MonthOf == [d \in 1..366 |->
               CHOOSE m \in 1..12 : DaysBeforeMonth[m] < d /\ d <= DaysBeforeMonth[m] + DaysInMonth[m]]

\* date.isoformat() for a date of 2024
IsoFormat(d) == <<2024, MonthOf[d], d - DaysBeforeMonth[MonthOf[d]]>>

----------------------------------------------------------------------------
(* The employees table *)

\* the employees table of populate_employees.py after _ensure_db_exists added
\* the tracking columns
NewColumns == {"vacation_days", "remaining_hours", "annual_quota",
               "vacation_used_hours", "sick_used_hours", "sick_accrued_hours"}

\* the accrued/used table of initialize_sample_data
OldColumns == {"vacation_accrued_hours", "sick_accrued_hours",
               "vacation_used_hours", "sick_used_hours",
               "vacation_annual_quota_days", "sick_annual_quota_days"}

LeaveTypes == {"vacation", "sick"}

\* employee_id.startswith("MGR")
StartsWithMGR(employee_id) == employee_id \in {"MGR001", "MGR999"}

\* a fresh row: the whole allocation available, nothing used
NewRow(quota) ==
    [vacation_days |-> quota, remaining_hours |-> quota * HoursPerDay, annual_quota |-> quota,
     vacation_used_hours |-> 0, sick_used_hours |-> 0, sick_accrued_hours |-> SickAccruedDefault]

OldRow(quota) ==
    [vacation_accrued_hours |-> quota * HoursPerDay, sick_accrued_hours |-> SickAccruedDefault,
     vacation_used_hours |-> 0, sick_used_hours |-> 0,
     vacation_annual_quota_days |-> quota, sick_annual_quota_days |-> SickQuotaDays]

----------------------------------------------------------------------------
(* EmployeeDatabase.get_remaining_balance *)

NotFoundBalance(employee_id) ==
    [error |-> <<"Employee not found", employee_id>>,
     remaining_days |-> 0, remaining_hours |-> 0, annual_quota_days |-> 0]

BalanceDict(employee_id, leave_type, remaining_hours, accrued, used, quota_days) ==
    [employee_id |-> employee_id,
     leave_type |-> leave_type,
     remaining_days |-> remaining_hours \div HoursPerDay,
     remaining_hours |-> remaining_hours,
     accrued_hours |-> accrued,
     used_hours |-> used,
     annual_quota_days |-> quota_days,
     annual_quota_hours |-> quota_days * HoursPerDay]

\* the branch taken when the table has vacation_days and remaining_hours
NewSchemaBalance(row, employee_id, leave_type) ==
    IF leave_type = "vacation"
    THEN LET quota_days == OrDefault(row["annual_quota"], DefaultAnnualQuota)
             remaining_hours_val == Max(0, row["remaining_hours"])
         IN  BalanceDict(employee_id, leave_type,
                         Min(remaining_hours_val, quota_days * HoursPerDay),
                         row["vacation_days"] * HoursPerDay,
                         row["vacation_used_hours"],
                         quota_days)
    ELSE LET quota_days == SickQuotaDays
             remaining_hours_val == Max(0, row["sick_accrued_hours"] - row["sick_used_hours"])
         IN  BalanceDict(employee_id, leave_type,
                         Min(remaining_hours_val, quota_days * HoursPerDay),
                         row["sick_accrued_hours"],
                         row["sick_used_hours"],
                         quota_days)

\* the accrued/used branch without the cap at the annual quota
OldSchemaBalanceUncapped(row, employee_id, leave_type) ==
    LET accrued == IF leave_type = "vacation" THEN row["vacation_accrued_hours"]
                                              ELSE row["sick_accrued_hours"]
        used == IF leave_type = "vacation" THEN row["vacation_used_hours"]
                                           ELSE row["sick_used_hours"]
        quota_days == IF leave_type = "vacation" THEN row["vacation_annual_quota_days"]
                                                 ELSE row["sick_annual_quota_days"]
    IN  BalanceDict(employee_id, leave_type, Max(0, accrued - used), accrued, used, quota_days)

\* the accrued/used branch
OldSchemaBalance(row, employee_id, leave_type) ==
    LET accrued == IF leave_type = "vacation" THEN row["vacation_accrued_hours"]
                                              ELSE row["sick_accrued_hours"]
        used == IF leave_type = "vacation" THEN row["vacation_used_hours"]
                                           ELSE row["sick_used_hours"]
        quota_days == IF leave_type = "vacation" THEN row["vacation_annual_quota_days"]
                                                 ELSE row["sick_annual_quota_days"]
        remaining_hours_val == Max(0, accrued - used)
        quota_days_val == OrDefault(quota_days, DefaultAnnualQuota)
    IN  BalanceDict(employee_id, leave_type,
                    Min(remaining_hours_val, quota_days_val * HoursPerDay),
                    accrued, used, quota_days)

GetRemainingBalance(cols, emps, employee_id, leave_type) ==
    IF employee_id \notin DOMAIN emps
    THEN NotFoundBalance(employee_id)
    ELSE IF "vacation_days" \in cols /\ "remaining_hours" \in cols
         THEN NewSchemaBalance(emps[employee_id], employee_id, leave_type)
         ELSE OldSchemaBalance(emps[employee_id], employee_id, leave_type)

(* EmployeeDatabase.check_balance_sufficient: <<is_sufficient, balance>> *)

\* a balance check that finds every balance sufficient
CheckBalanceSufficientAlways(cols, emps, employee_id, days_requested, leave_type) ==
    <<TRUE, GetRemainingBalance(cols, emps, employee_id, leave_type)>>

CheckBalanceSufficient(cols, emps, employee_id, days_requested, leave_type) ==
    LET balance == GetRemainingBalance(cols, emps, employee_id, leave_type)
        hours_needed == days_requested * HoursPerDay
    IN  IF "error" \in DOMAIN balance
        THEN <<FALSE, balance>>
        ELSE <<balance.remaining_hours >= hours_needed, balance>>

\* get_employee_info answering with default quotas instead of None
GetEmployeeInfoDefault(cols, emps, employee_id) ==
    [employee_id |-> employee_id,
     vacation_annual_quota_days |-> DefaultAnnualQuota,
     sick_annual_quota_days |-> SickQuotaDays]

(* EmployeeDatabase.get_employee_info; None when the employee is unknown *)
GetEmployeeInfo(cols, emps, employee_id) ==
    IF employee_id \notin DOMAIN emps
    THEN None
    ELSE IF "annual_quota" \in cols
         THEN [employee_id |-> employee_id,
               vacation_annual_quota_days |->
                   OrDefault(emps[employee_id]["annual_quota"], DefaultAnnualQuota),
               sick_annual_quota_days |-> SickQuotaDays]
         ELSE [employee_id |-> employee_id,
               vacation_annual_quota_days |-> emps[employee_id]["vacation_annual_quota_days"],
               sick_annual_quota_days |-> emps[employee_id]["sick_annual_quota_days"]]

----------------------------------------------------------------------------
(* EmployeeDatabase._update_employee_balance *)

\* UPDATE ... SET col = CASE WHEN col - x < 0 THEN 0 WHEN col - x > cap THEN cap ELSE col - x END
ClampedSubtract(value, x, cap) ==
    IF value - x < 0 THEN 0
    ELSE IF value - x > cap THEN cap
    ELSE value - x

\* UPDATE ... SET col = CASE WHEN col - x < 0 THEN 0 ELSE col - x END
FlooredSubtract(value, x) == IF value - x < 0 THEN 0 ELSE value - x

UpdateVacationRow(cols, row, days_change, hours_change) ==
    LET has_annual_quota == "annual_quota" \in cols
        r1 == IF "vacation_days" \in cols
              THEN [row EXCEPT !["vacation_days"] =
                       IF has_annual_quota
                       THEN ClampedSubtract(@, days_change, row["annual_quota"])
                       ELSE FlooredSubtract(@, days_change)]
              ELSE row
        r2 == IF "remaining_hours" \in cols
              THEN [r1 EXCEPT !["remaining_hours"] =
                       IF has_annual_quota
                       THEN ClampedSubtract(@, hours_change, row["annual_quota"] * HoursPerDay)
                       ELSE FlooredSubtract(@, hours_change)]
              ELSE r1
        r3 == IF "vacation_used_hours" \in cols
              THEN [r2 EXCEPT !["vacation_used_hours"] = @ + hours_change]
              ELSE r2
    IN  r3

\* the sick update charging the vacation hours as well
UpdateSickRowBorrowing(cols, row, hours_change) ==
    [row EXCEPT !["sick_used_hours"] = @ + hours_change,
                !["vacation_used_hours"] = @ + hours_change]

UpdateSickRow(cols, row, hours_change) ==
    LET r1 == IF "sick_used_hours" \in cols
              THEN [row EXCEPT !["sick_used_hours"] = @ + hours_change]
              ELSE row
        r2 == IF "remaining_sick_hours" \in cols
              THEN [r1 EXCEPT !["remaining_sick_hours"] = FlooredSubtract(@, hours_change)]
              ELSE r1
    IN  r2

\* the employees table after the call; an UPDATE for an employee_id that is
\* not in the table matches no row
UpdateEmployeeBalance(cols, emps, employee_id, leave_type, days_change) ==
    LET hours_change == days_change * HoursPerDay
    IN  IF hours_change = 0 THEN emps
        ELSE IF employee_id \notin DOMAIN emps THEN emps
        ELSE [emps EXCEPT ![employee_id] =
                 IF leave_type = "vacation"
                 THEN UpdateVacationRow(cols, @, days_change, hours_change)
                 ELSE UpdateSickRow(cols, @, hours_change)]

----------------------------------------------------------------------------
(* EmployeeDatabase.record_leave_request *)

LeaveRequestRow(employee_id, leave_type, start_date, end_date, days_requested, status) ==
    [employee_id |-> employee_id,
     leave_type |-> leave_type,
     start_date |-> IsoFormat(start_date),
     end_date |-> IsoFormat(end_date),
     days_requested |-> days_requested,
     hours_requested |-> days_requested * HoursPerDay,
     status |-> status]

\* the leave_requests table after the call: the INSERT is not conditional on
\* the employee being known (sqlite3 does not enforce the FOREIGN KEY clause
\* unless PRAGMA foreign_keys is switched on, which the code never does)
\* the history with its newest record overwritten by the new one
RecordedRequestsReplacingLast(reqs, employee_id, leave_type, start_date, end_date, days_requested, status) ==
    LET r == LeaveRequestRow(employee_id, leave_type, start_date, end_date, days_requested, status)
    IN  IF reqs = <<>> THEN <<r>> ELSE [reqs EXCEPT ![Len(reqs)] = r]

RecordedRequests(reqs, employee_id, leave_type, start_date, end_date, days_requested, status) ==
    Append(reqs, LeaveRequestRow(employee_id, leave_type, start_date, end_date,
                                 days_requested, status))

\* record_leave_request reducing the balance whatever the status
RecordedEmployeesAnyStatus(cols, emps, employee_id, leave_type, days_requested, status) ==
    UpdateEmployeeBalance(cols, emps, employee_id, leave_type, days_requested)

\* the employees table after the call
RecordedEmployees(cols, emps, employee_id, leave_type, days_requested, status) ==
    IF status = "approved"
    THEN UpdateEmployeeBalance(cols, emps, employee_id, leave_type, days_requested)
    ELSE emps

----------------------------------------------------------------------------
(* PolicyRAG.check_policy_compliance *)

Rule60 == "60% Rule (Section 2.1)"
RuleNotice == "Notice Period (Section 2.4)"
RuleBlackout == "Blackout Period (Section 2.3)"
RuleFrequency == "Frequency Limits (Section 2.2)"

\* sub in rule, for the rule names and the substrings the code looks for
RuleContains(rule, sub) ==
    <<rule, sub>> \in {<<Rule60, "60% Rule">>, <<RuleNotice, "Notice Period">>,
                       <<RuleNotice, "Notice">>, <<RuleBlackout, "Blackout Period">>,
                       <<RuleFrequency, "Frequency Limits">>}

SixtyPercentViolation(days_requested, max_single_request) ==
    [rule |-> Rule60,
     description |-> <<"Cannot use more than 60% of annual allowance ({max} days) in a single request",
                       max_single_request>>,
     requested |-> days_requested,
     maximum |-> max_single_request]

NoticeViolation(notice_days) ==
    [rule |-> RuleNotice,
     description |-> <<"Minimum 2-week notice required for leaves >3 days">>,
     notice_provided |-> notice_days,
     required |-> LongNoticeDays]

NoticeWarning(notice_days) ==
    [rule |-> RuleNotice,
     description |-> <<"Recommended minimum 5 business days notice for 1-3 day leaves">>,
     notice_provided |-> notice_days,
     type |-> "warning"]

\* check_policy_compliance with a different 60% test, notice test or
\* compliant flag
PolicyComplianceVariant(request_info, Over60(_, _), Late(_, _), Compliant(_, _)) ==
    LET days_requested == request_info.days_requested
        notice_days == request_info.notice_days
        max_single_request == request_info.annual_quota_days * SixtyPercentTenths
        over60 == request_info.leave_type = "vacation" /\ Over60(days_requested, max_single_request)
        late == Late(days_requested, notice_days)
        short == ~(days_requested > LongNoticeThreshold) /\ days_requested >= 1
                 /\ notice_days < ShortNoticeDays
        violations == (IF over60 THEN <<SixtyPercentViolation(days_requested, max_single_request)>>
                                 ELSE <<>>)
                      \o (IF late THEN <<NoticeViolation(notice_days)>> ELSE <<>>)
        warnings == IF short THEN <<NoticeWarning(notice_days)>> ELSE <<>>
    IN  [compliant |-> Compliant(violations, warnings),
         violations |-> violations,
         warnings |-> warnings,
         section_references |-> [i \in 1..Len(violations \o warnings) |->
                                    (violations \o warnings)[i].rule]]

\* the 60% rule refusing a request of exactly 60% of the quota
CheckPolicyComplianceAtLeast60(request_info) ==
    PolicyComplianceVariant(request_info,
                            LAMBDA days, max : days * 10 >= max,
                            LAMBDA days, notice : days > LongNoticeThreshold /\ notice < LongNoticeDays,
                            LAMBDA violations, warnings : violations = <<>>)

\* the notice rule refusing a notice of exactly 14 days
CheckPolicyComplianceNoticeOver14(request_info) ==
    PolicyComplianceVariant(request_info,
                            LAMBDA days, max : days * 10 > max,
                            LAMBDA days, notice : days > LongNoticeThreshold /\ notice <= LongNoticeDays,
                            LAMBDA violations, warnings : violations = <<>>)

\* a warning making the request not compliant
CheckPolicyComplianceWarningsBlock(request_info) ==
    PolicyComplianceVariant(request_info,
                            LAMBDA days, max : days * 10 > max,
                            LAMBDA days, notice : days > LongNoticeThreshold /\ notice < LongNoticeDays,
                            LAMBDA violations, warnings : violations = <<>> /\ warnings = <<>>)

\* request_info: [leave_type, days_requested, annual_quota_days, notice_days, ...];
\* max_single_request and "maximum" are in tenths of a day
CheckPolicyCompliance(request_info) ==
    LET leave_type == request_info.leave_type
        days_requested == request_info.days_requested
        annual_quota == request_info.annual_quota_days
        notice_days == request_info.notice_days
        max_single_request == annual_quota * SixtyPercentTenths
        over60 == leave_type = "vacation" /\ days_requested * 10 > max_single_request
        late == days_requested > LongNoticeThreshold /\ notice_days < LongNoticeDays
        short == ~(days_requested > LongNoticeThreshold) /\ days_requested >= 1
                 /\ notice_days < ShortNoticeDays
        violations == (IF over60 THEN <<SixtyPercentViolation(days_requested, max_single_request)>>
                                 ELSE <<>>)
                      \o (IF late THEN <<NoticeViolation(notice_days)>> ELSE <<>>)
        warnings == IF short THEN <<NoticeWarning(notice_days)>> ELSE <<>>
    IN  [compliant |-> ~over60 /\ ~late,
         violations |-> violations,
         warnings |-> warnings,
         section_references |-> [i \in 1..Len(violations \o warnings) |->
                                    (violations \o warnings)[i].rule]]

(* PolicyRAG.get_blackout_periods *)
BlackoutPeriods ==
    <<[name |-> "Q1 End", start |-> <<2024, 3, 18>>, end |-> <<2024, 3, 31>>],
      [name |-> "Q2 End", start |-> <<2024, 6, 17>>, end |-> <<2024, 6, 30>>],
      [name |-> "Q3 End", start |-> <<2024, 9, 16>>, end |-> <<2024, 9, 30>>],
      [name |-> "Year-End", start |-> <<2024, 11, 15>>, end |-> <<2024, 12, 31>>]>>

(* PolicyRAG.suggest_alternatives: the option strings "Option <option>: <text>" *)
SuggestAlternatives(violation_info) ==
    LET rule == Get(violation_info, "rule", "")
    IN  IF RuleContains(rule, "60% Rule")
        THEN LET max_days == Get(violation_info, "maximum", 0)
                 requested == Get(violation_info, "requested", 0)
             IN  <<[option |-> "A",
                    text |-> <<"Reduce request to {max_days} days to comply with 60% rule",
                               max_days>>],
                   [option |-> "B",
                    text |-> <<"Split into two separate requests (e.g., {max_days} days now, {rest} days later)",
                               max_days, requested * 10 - max_days>>]>>
        ELSE IF RuleContains(rule, "Notice Period")
        THEN LET required == Get(violation_info, "required", LongNoticeDays)
                 provided == Get(violation_info, "notice_provided", 0)
                 days_needed == required - provided
             IN  <<[option |-> "A",
                    text |-> <<"Shift start date {days_needed} days later to meet {required}-day notice requirement",
                               days_needed, required>>],
                   [option |-> "B",
                    text |-> <<"Request manager override for emergency circumstances">>]>>
        ELSE IF RuleContains(rule, "Blackout Period")
        THEN <<[option |-> "A", text |-> <<"Shift dates to avoid blackout period">>],
               [option |-> "B",
                text |-> <<"Reduce request to less than 3 days (allowed during blackout)">>],
               [option |-> "C",
                text |-> <<"Request manager override for special circumstances">>]>>
        ELSE IF RuleContains(rule, "Frequency Limits")
        THEN <<[option |-> "A",
                text |-> <<"Delay this request until the 60-day window expires">>],
               [option |-> "B",
                text |-> <<"Reduce duration to 7 days or less to avoid 'long vacation' classification">>]>>
        ELSE <<>>

----------------------------------------------------------------------------
(* VacationAgent._check_blackout_periods *)

BlackoutViolation(blackout) ==
    [rule |-> RuleBlackout,
     description |-> <<"Requested dates fall in {name} blackout period",
                       ParseDate(blackout.start), ParseDate(blackout.end)>>,
     blackout_name |-> blackout.name,
     blackout_start |-> IsoFormat(ParseDate(blackout.start)),
     blackout_end |-> IsoFormat(ParseDate(blackout.end))]

\* the loop over blackout_periods from index i on
RECURSIVE BlackoutFrom(_, _, _, _)
BlackoutFrom(i, start_date, end_date, days_requested) ==
    IF i > Len(BlackoutPeriods) THEN None
    ELSE LET blackout == BlackoutPeriods[i]
             blackout_start == ParseDate(blackout.start)
             blackout_end == ParseDate(blackout.end)
         IN  IF start_date <= blackout_end /\ end_date >= blackout_start
                /\ ~(days_requested < BlackoutExemptDays)
             THEN BlackoutViolation(blackout)
             ELSE BlackoutFrom(i + 1, start_date, end_date, days_requested)

\* the blackout check without the exemption of requests under 3 days
CheckBlackoutPeriodsNoExemption(start_date, end_date, days_requested) ==
    BlackoutFrom(1, start_date, end_date, BlackoutExemptDays)

CheckBlackoutPeriods(start_date, end_date, days_requested) ==
    BlackoutFrom(1, start_date, end_date, days_requested)

----------------------------------------------------------------------------
(* EmployeeDatabase.get_long_vacations *)

\* ORDER BY start_date DESC: insert row into a list that is already ordered
RECURSIVE InsertByStartDesc(_, _)
InsertByStartDesc(sorted, row) ==
    IF sorted = <<>> THEN <<row>>
    ELSE IF ParseDate(row.start_date) > ParseDate(Head(sorted).start_date)
         THEN <<row>> \o sorted
         ELSE <<Head(sorted)>> \o InsertByStartDesc(Tail(sorted), row)

RECURSIVE OrderByStartDesc(_)
OrderByStartDesc(rows) ==
    IF rows = <<>> THEN <<>>
    ELSE InsertByStartDesc(OrderByStartDesc(Tail(rows)), Head(rows))

\* the WHERE clause without "AND status = 'approved'"
IsLongVacationOfAnyStatus(employee_id, row) ==
    /\ row.employee_id = employee_id
    /\ row.leave_type = "vacation"
    /\ row.days_requested > LongVacationDays

IsLongVacationOf(employee_id, row) ==
    /\ row.employee_id = employee_id
    /\ row.leave_type = "vacation"
    /\ row.days_requested > LongVacationDays
    /\ row.status = "approved"

GetLongVacations(reqs, employee_id) ==
    LET rows == OrderByStartDesc(SelectSeq(reqs, LAMBDA row : IsLongVacationOf(employee_id, row)))
    IN  [i \in 1..Len(rows) |->
            [start_date |-> ParseDate(rows[i].start_date),
             end_date |-> ParseDate(rows[i].end_date),
             days |-> rows[i].days_requested]]

(* VacationAgent._check_frequency_limits *)
\* the frequency check counting every long vacation, wherever it lies
CheckFrequencyLimitsAnyDate(reqs, employee_id, start_date, end_date) ==
    LET long_vacations == GetLongVacations(reqs, employee_id)
    IN  IF Len(long_vacations) >= FrequencyLimit
        THEN [rule |-> RuleFrequency,
              description |-> <<"Exceeds limit of 2 long vacations (>7 days) within any 60-day period",
                                Len(long_vacations)>>,
              existing_count |-> Len(long_vacations),
              limit |-> FrequencyLimit]
        ELSE None

\* the frequency check that never finds a violation
CheckFrequencyLimitsNever(reqs, employee_id, start_date, end_date) == None

CheckFrequencyLimits(reqs, employee_id, start_date, end_date) ==
    LET long_vacations == GetLongVacations(reqs, employee_id)
        requested_range_start == start_date - FrequencyWindowDays
        requested_range_end == end_date + FrequencyWindowDays
        nearby_long_vacations ==
            SelectSeq(long_vacations,
                      LAMBDA vac : vac.start_date <= requested_range_end
                                   /\ vac.end_date >= requested_range_start)
    IN  IF Len(nearby_long_vacations) >= FrequencyLimit
        THEN [rule |-> RuleFrequency,
              description |-> <<"Exceeds limit of 2 long vacations (>7 days) within any 60-day period",
                                Len(nearby_long_vacations)>>,
              existing_count |-> Len(nearby_long_vacations),
              limit |-> FrequencyLimit]
        ELSE None

----------------------------------------------------------------------------
(* VacationAgent._generate_analysis_checks *)

\* date.weekday(): 0 = Monday; 2024-01-01 is a Monday
Weekday(d) == (d - 1) % 7

IsNoticeWarning(v) == Get(v, "type", "") = "warning" /\ RuleContains(Get(v, "rule", ""), "Notice")

GenerateAnalysisChecks(sufficient, days_requested, start_date, end_date, violations, policy_check, blackout_violation, frequency_violation) ==
    LET max_consecutive == Get(policy_check, "max_consecutive_days", MaxConsecutiveDefault)
        notice_warnings == SelectSeq(violations, IsNoticeWarning)
        calendar_days == (end_date - start_date) + 1
        includes_weekends == Weekday(start_date) >= 5 \/ Weekday(end_date) >= 5
                             \/ calendar_days >= 7
    IN  <<[check |-> "Balance Check", status |-> IF sufficient THEN "PASS" ELSE "FAIL"]>>
        \o <<[check |-> "Max Consecutive Days",
              status |-> IF days_requested > max_consecutive THEN "FAIL" ELSE "PASS"]>>
        \o <<[check |-> "Blackout Period",
              status |-> IF ~IsNone(blackout_violation) THEN "FAIL" ELSE "PASS"]>>
        \o <<[check |-> "Frequency Limits",
              status |-> IF ~IsNone(frequency_violation) THEN "FAIL" ELSE "PASS"]>>
        \o (IF notice_warnings # <<>>
            THEN [i \in 1..Len(notice_warnings) |->
                     [check |-> "Notice Period", status |-> "WARNING"]]
            ELSE <<[check |-> "Notice Period", status |-> "PASS"]>>)
        \o (IF includes_weekends
            THEN <<[check |-> "Weekend Inclusion", status |-> "INFO"]>>
            ELSE <<>>)

----------------------------------------------------------------------------
(* VacationAgent._generate_approval_response *)

\* 'Recommended' in description
ContainsRecommended(description) ==
    description # <<>>
    /\ description[1] = "Recommended minimum 5 business days notice for 1-3 day leaves"

\* "Shift" in opt_text or "Reduce" in opt_text
ContainsShiftOrReduce(text) ==
    text[1] \in {"Reduce request to {max_days} days to comply with 60% rule",
                 "Shift start date {days_needed} days later to meet {required}-day notice requirement",
                 "Shift dates to avoid blackout period",
                 "Reduce request to less than 3 days (allowed during blackout)",
                 "Reduce duration to 7 days or less to avoid 'long vacation' classification"}

\* str.lower() of the text of an option description
LowerText(t) ==
    CASE t = "Approve {days} days ({start} - {end})" -> "approve {days} days ({start} - {end})"
      [] t = "Reduce request to {max_days} days to comply with 60% rule"
           -> "reduce request to {max_days} days to comply with 60% rule"
      [] t = "Split into two separate requests (e.g., {max_days} days now, {rest} days later)"
           -> "split into two separate requests (e.g., {max_days} days now, {rest} days later)"
      [] t = "Shift start date {days_needed} days later to meet {required}-day notice requirement"
           -> "shift start date {days_needed} days later to meet {required}-day notice requirement"
      [] t = "Request manager override for emergency circumstances"
           -> "request manager override for emergency circumstances"
      [] t = "Shift dates to avoid blackout period" -> "shift dates to avoid blackout period"
      [] t = "Reduce request to less than 3 days (allowed during blackout)"
           -> "reduce request to less than 3 days (allowed during blackout)"
      [] t = "Request manager override for special circumstances"
           -> "request manager override for special circumstances"
      [] t = "Delay this request until the 60-day window expires"
           -> "delay this request until the 60-day window expires"
      [] t = "Reduce duration to 7 days or less to avoid 'long vacation' classification"
           -> "reduce duration to 7 days or less to avoid 'long vacation' classification"
      [] t = "Use only available balance: {remaining_days} days"
           -> "use only available balance: {remaining_days} days"
      [] t = "Delay request until you accrue {shortfall} more days"
           -> "delay request until you accrue {shortfall} more days"
      [] t = "Reject this request due to policy violations"
           -> "reject this request due to policy violations"
      [] OTHER -> t

\* opt["description"].lower(): the numbers formatted into the text have no case
Lower(description) == [i \in 1..Len(description) |->
                          IF i = 1 THEN LowerText(description[1]) ELSE description[i]]

ApproveOption(letter, days_requested, start_date, end_date) ==
    [letter |-> letter,
     title |-> <<"Approve as requested">>,
     description |-> <<"Approve {days} days ({start} - {end})", days_requested, start_date, end_date>>,
     consequence |-> <<"All policy violations will be noted but overridden">>,
     recommended |-> FALSE,
     type |-> "approve"]

\* one option string of suggest_alternatives, parsed: title is the part before
\* the first ':' without "Option ", description the stripped rest
ModifyOption(letter, opt, violation) ==
    [letter |-> letter,
     title |-> <<opt.option>>,
     description |-> opt.text,
     consequence |-> <<"Addresses", Get(violation, "rule", "Policy violation")>>,
     recommended |-> ContainsShiftOrReduce(opt.text),
     type |-> "modify"]

\* the options of the blocking violations from index i on, lettered from letter on
RECURSIVE ViolationOptions(_, _, _)
ViolationOptions(violations, i, letter) ==
    IF i > Len(violations) THEN <<>>
    ELSE IF Get(violations[i], "type", "") # "warning"
         THEN LET alts == SuggestAlternatives(violations[i])
              IN  [k \in 1..Len(alts) |-> ModifyOption(letter + k - 1, alts[k], violations[i])]
                  \o ViolationOptions(violations, i + 1, letter + Len(alts))
         ELSE ViolationOptions(violations, i + 1, letter)

BalanceOptions(letter, days_requested, balance_info) ==
    LET shortfall == days_requested - balance_info.remaining_days
    IN  <<[letter |-> letter,
           title |-> <<"Reduce to {remaining_days} days", balance_info.remaining_days>>,
           description |-> <<"Use only available balance: {remaining_days} days",
                             balance_info.remaining_days>>,
           consequence |-> <<"Saves {shortfall} days for future use", shortfall>>,
           recommended |-> TRUE,
           type |-> "reduce"],
          [letter |-> letter + 1,
           title |-> <<"Wait to accrue more days">>,
           description |-> <<"Delay request until you accrue {shortfall} more days", shortfall>>,
           consequence |-> <<"Request can be resubmitted once balance is sufficient">>,
           recommended |-> FALSE,
           type |-> "delay"]>>

BlockingRules(violations) ==
    LET blocking == SelectSeq(violations, LAMBDA v : Get(v, "type", "") # "warning")
    IN  [i \in 1..Len(blocking) |-> Get(blocking[i], "rule", "Policy violation")]

DenyOption(letter, violations) ==
    [letter |-> letter,
     title |-> <<"Deny request">>,
     description |-> <<"Reject this request due to policy violations">>,
     consequence |-> <<"Reason">> \o BlockingRules(violations),
     recommended |-> FALSE,
     type |-> "deny"]

\* "Remove duplicates based on description": keep the first of each lower-cased description
RECURSIVE UniqueOptions(_, _)
\* the options without the removal of duplicates
UniqueOptionsKeepAll(all_options, seen_descriptions) == all_options
UniqueOptions(all_options, seen_descriptions) ==
    IF all_options = <<>> THEN <<>>
    ELSE LET opt == Head(all_options)
             desc_key == Lower(opt.description)
         IN  IF desc_key \notin seen_descriptions
             THEN <<opt>> \o UniqueOptions(Tail(all_options), seen_descriptions \cup {desc_key})
             ELSE UniqueOptions(Tail(all_options), seen_descriptions)

\* the alternatives of a request that is not approved, without the deny option
DenialOptionsWithoutDeny(balance_info, sufficient, days_requested, start_date, end_date, violations, blackout_violation, frequency_violation) ==
    LET first == IF sufficient /\ IsNone(blackout_violation) /\ IsNone(frequency_violation)
                 THEN <<ApproveOption(1, days_requested, start_date, end_date)>>
                 ELSE <<>>
        modify == ViolationOptions(violations, 1, 1 + Len(first))
        balance == IF ~sufficient
                   THEN BalanceOptions(1 + Len(first) + Len(modify), days_requested, balance_info)
                   ELSE <<>>
    IN  UniqueOptions(first \o modify \o balance, {})

\* the options of a request that is not approved; letters count from 1 = 'A'
DenialOptions(balance_info, sufficient, days_requested, start_date, end_date, violations, blackout_violation, frequency_violation) ==
    LET first == IF sufficient /\ IsNone(blackout_violation) /\ IsNone(frequency_violation)
                 THEN <<ApproveOption(1, days_requested, start_date, end_date)>>
                 ELSE <<>>
        modify == ViolationOptions(violations, 1, 1 + Len(first))
        balance == IF ~sufficient
                   THEN BalanceOptions(1 + Len(first) + Len(modify), days_requested, balance_info)
                   ELSE <<>>
        deny == <<DenyOption(1 + Len(first) + Len(modify) + Len(balance), violations)>>
    IN  UniqueOptions(first \o modify \o balance \o deny, {})

GenerateApprovalResponse(employee_info, balance_info, sufficient, days_requested, start_date, end_date, leave_type, violations, approved, analysis_checks, blackout_violation, frequency_violation) ==
    LET warnings_only ==
            IF approved
            THEN SelectSeq(violations,
                           LAMBDA v : Get(v, "type", "") = "warning"
                                      \/ ContainsRecommended(Get(v, "description", <<>>)))
            ELSE <<>>
        violations_to_show == IF approved THEN warnings_only ELSE violations
    IN  [status |-> IF approved THEN "approved" ELSE "denied",
         employee_id |-> employee_info.employee_id,
         leave_type |-> leave_type,
         requested_dates |-> [start |-> IsoFormat(start_date), end |-> IsoFormat(end_date),
                              days |-> days_requested],
         balance_info |-> [remaining_days |-> balance_info.remaining_days,
                           remaining_hours |-> balance_info.remaining_hours,
                           annual_quota_days |-> balance_info.annual_quota_days],
         violations |-> violations_to_show,
         warnings |-> warnings_only,
         message |-> IF approved THEN <<"APPROVED">> ELSE <<"DENIED">>,
         options |-> IF approved THEN <<>>
                     ELSE DenialOptions(balance_info, sufficient, days_requested, start_date,
                                        end_date, violations, blackout_violation,
                                        frequency_violation),
         email_content |-> IF approved THEN <<"Leave Request Approved">> ELSE None,
         analysis_checks |-> analysis_checks]

----------------------------------------------------------------------------
(* VacationAgent.process_vacation_request *)

ErrorResponse(employee_id) ==
    [status |-> "error",
     message |-> <<"Employee not found", employee_id>>,
     employee_id |-> employee_id]

\* the response of the manager auto-approval branch; balance_info is the
\* balance fetched after the request was recorded
ManagerResponse(employee_info, leave_type, start_date, end_date, days_requested, balance_info) ==
    [status |-> "approved",
     employee_id |-> employee_info.employee_id,
     leave_type |-> leave_type,
     requested_dates |-> [start |-> IsoFormat(start_date), end |-> IsoFormat(end_date),
                          days |-> days_requested],
     balance_info |-> [remaining_days |-> balance_info.remaining_days,
                       remaining_hours |-> balance_info.remaining_hours,
                       annual_quota_days |-> balance_info.annual_quota_days],
     violations |-> <<>>,
     warnings |-> <<>>,
     message |-> <<"AUTO-APPROVED">>,
     options |-> <<>>,
     email_content |-> <<"Leave Request Approved">>,
     is_manager_approval |-> TRUE]

\* the response without the override of the status
PendingResponseKeepStatus(response, can_be_approved) ==
    response @@ [can_be_approved |-> can_be_approved]

\* lines 188-190: the status is overridden and the eligibility stored
PendingResponse(response, can_be_approved) ==
    [response EXCEPT !.status = "pending"] @@ [can_be_approved |-> can_be_approved]

\* can_be_approved without the blackout conjunct
CanBeApprovedIgnoringBlackout(sufficient, policy_check, blackout_violation, frequency_violation) ==
    sufficient /\ policy_check.compliant /\ IsNone(frequency_violation)

\* can_be_approved of line 152
CanBeApproved(sufficient, policy_check, blackout_violation, frequency_violation) ==
    sufficient /\ policy_check.compliant /\ IsNone(blackout_violation)
    /\ IsNone(frequency_violation)

\* all_violations of lines 143-147
AllViolations(policy_check, blackout_violation, frequency_violation) ==
    policy_check.violations \o policy_check.warnings
    \o (IF ~IsNone(blackout_violation) THEN <<blackout_violation>> ELSE <<>>)
    \o (IF ~IsNone(frequency_violation) THEN <<frequency_violation>> ELSE <<>>)

\* the regular (non-manager) branch, lines 112-192: reads the tables only
RegularResponse(cols, emps, reqs, employee_info, employee_id, leave_type, start_date, end_date, days_requested, notice_days) ==
    LET annual_quota == IF leave_type = "vacation"
                        THEN employee_info.vacation_annual_quota_days
                        ELSE employee_info.sick_annual_quota_days
        checked == CheckBalanceSufficient(cols, emps, employee_id, days_requested, leave_type)
        sufficient == checked[1]
        balance_info == checked[2]
        request_info == [employee_id |-> employee_id,
                         leave_type |-> leave_type,
                         days_requested |-> days_requested,
                         start_date |-> start_date,
                         end_date |-> end_date,
                         annual_quota_days |-> annual_quota,
                         notice_days |-> notice_days]
        policy_check == CheckPolicyCompliance(request_info)
        blackout_violation == CheckBlackoutPeriods(start_date, end_date, days_requested)
        frequency_violation ==
            IF leave_type = "vacation" /\ days_requested > LongVacationDays
            THEN CheckFrequencyLimits(reqs, employee_id, start_date, end_date)
            ELSE None
        all_violations == AllViolations(policy_check, blackout_violation, frequency_violation)
        can_be_approved == CanBeApproved(sufficient, policy_check, blackout_violation,
                                         frequency_violation)
        analysis_checks == GenerateAnalysisChecks(sufficient, days_requested, start_date,
                                                  end_date, all_violations, policy_check,
                                                  blackout_violation, frequency_violation)
        response == GenerateApprovalResponse(employee_info, balance_info, sufficient,
                                             days_requested, start_date, end_date, leave_type,
                                             all_violations, can_be_approved, analysis_checks,
                                             blackout_violation, frequency_violation)
    IN  PendingResponse(response, can_be_approved)

\* is_manager_employee of line 61
IsManagerEmployee(employee_id, is_manager) == is_manager \/ StartsWithMGR(employee_id)

\* the manager branch showing the balance it read before recording
ManagerBalanceInfoStale(cols, emps_before, emps_after, employee_id, leave_type) ==
    GetRemainingBalance(cols, emps_before, employee_id, leave_type)

\* process_vacation_request recording the request on every branch
ProcessedRequestsAlways(reqs, is_manager_employee, employee_id, leave_type, start_date, end_date, days_requested) ==
    RecordedRequests(reqs, employee_id, leave_type, start_date, end_date,
                     days_requested, "approved")

\* lines 75-77: the balance shown by the manager branch is fetched again
\* after the request was recorded
ManagerBalanceInfo(cols, emps_before, emps_after, employee_id, leave_type) ==
    GetRemainingBalance(cols, emps_after, employee_id, leave_type)

\* the leave_requests table after process_vacation_request: only the manager
\* branch (lines 64-73) calls record_leave_request
ProcessedRequests(reqs, is_manager_employee, employee_id, leave_type, start_date, end_date, days_requested) ==
    IF is_manager_employee
    THEN RecordedRequests(reqs, employee_id, leave_type, start_date, end_date,
                          days_requested, "approved")
    ELSE reqs

\* the employees table after process_vacation_request
ProcessedEmployees(cols, emps, is_manager_employee, employee_id, leave_type, days_requested) ==
    IF is_manager_employee
    THEN RecordedEmployees(cols, emps, employee_id, leave_type, days_requested, "approved")
    ELSE emps

ProcessVacationRequest(employee_id, leave_type, start_date, end_date, request_date, is_manager) ==
    LET days_requested == (end_date - start_date) + 1
        notice_days == start_date - request_date
        employee_info == GetEmployeeInfo(columns, employees, employee_id)
        is_manager_employee == IsManagerEmployee(employee_id, is_manager)
    IN  /\ call' = [op |-> "process_vacation_request",
                    employee_id |-> employee_id, leave_type |-> leave_type,
                    start_date |-> start_date, end_date |-> end_date,
                    request_date |-> request_date, is_manager |-> is_manager]
        /\ pre_employees' = employees
        /\ pre_requests' = leave_requests
        /\ UNCHANGED <<columns, sessions>>
        /\ IF IsNone(employee_info)
           THEN /\ result' = ErrorResponse(employee_id)
                /\ UNCHANGED <<employees, leave_requests, n_calls>>
           ELSE /\ is_manager_employee => n_calls < MaxCalls
                /\ n_calls' = IF is_manager_employee THEN n_calls + 1 ELSE n_calls
                /\ leave_requests' = ProcessedRequests(leave_requests, is_manager_employee,
                                                       employee_id, leave_type, start_date,
                                                       end_date, days_requested)
                /\ employees' = ProcessedEmployees(columns, employees, is_manager_employee,
                                                   employee_id, leave_type, days_requested)
                /\ result' =
                      IF is_manager_employee
                      THEN ManagerResponse(employee_info, leave_type, start_date, end_date,
                                           days_requested,
                                           ManagerBalanceInfo(columns, employees, employees',
                                                              employee_id, leave_type))
                      ELSE RegularResponse(columns, employees, leave_requests, employee_info,
                                           employee_id, leave_type, start_date, end_date,
                                           days_requested, notice_days)

(* a caller's call of EmployeeDatabase.record_leave_request *)
\* the call itself, whatever the number of calls made so far
RecordLeaveRequestCall(employee_id, leave_type, start_date, end_date, days_requested, status) ==
    /\ n_calls' = n_calls + 1
    /\ call' = [op |-> "record_leave_request",
                employee_id |-> employee_id, leave_type |-> leave_type,
                start_date |-> start_date, end_date |-> end_date,
                days_requested |-> days_requested, status |-> status]
    /\ pre_employees' = employees
    /\ pre_requests' = leave_requests
    /\ leave_requests' = RecordedRequests(leave_requests, employee_id, leave_type,
                                          start_date, end_date, days_requested, status)
    /\ employees' = RecordedEmployees(columns, employees, employee_id, leave_type,
                                      days_requested, status)
    /\ result' = None
    /\ UNCHANGED <<columns, sessions>>

RecordLeaveRequest(employee_id, leave_type, start_date, end_date, days_requested, status) ==
    /\ n_calls < MaxCalls
    /\ RecordLeaveRequestCall(employee_id, leave_type, start_date, end_date, days_requested, status)

----------------------------------------------------------------------------
(* The ledgers a run starts from, and the requests made in a run *)

RegularId == "EMP001"
ManagerId == "MGR001"
UnknownIds == {"EMP999", "MGR999"}

RegularQuota == 10
ManagerQuota == 20

FreshEmployees(cols) ==
    IF cols = NewColumns
    THEN (RegularId :> NewRow(RegularQuota)) @@ (ManagerId :> NewRow(ManagerQuota))
    ELSE (RegularId :> OldRow(RegularQuota)) @@ (ManagerId :> OldRow(ManagerQuota))

\* approved leave taken before the run starts: nothing; three days of
\* vacation; two long vacations as in main.py's demo_frequency_limit
SeedHistories ==
    {<<>>,
     <<[employee_id |-> RegularId, leave_type |-> "vacation", start_date |-> 10,
        end_date |-> 12, days_requested |-> 3, status |-> "approved"]>>,
     <<[employee_id |-> RegularId, leave_type |-> "vacation", start_date |-> 20,
        end_date |-> 28, days_requested |-> 9, status |-> "approved"],
       [employee_id |-> RegularId, leave_type |-> "vacation", start_date |-> 5,
        end_date |-> 15, days_requested |-> 11, status |-> "approved"]>>}

RECURSIVE ReplayRequests(_)
ReplayRequests(seed) ==
    IF seed = <<>> THEN <<>>
    ELSE LET r == seed[Len(seed)]
         IN  RecordedRequests(ReplayRequests(SubSeq(seed, 1, Len(seed) - 1)), r.employee_id,
                              r.leave_type, r.start_date, r.end_date, r.days_requested, r.status)

RECURSIVE ReplayEmployees(_, _)
ReplayEmployees(cols, seed) ==
    IF seed = <<>> THEN FreshEmployees(cols)
    ELSE LET r == seed[Len(seed)]
         IN  RecordedEmployees(cols, ReplayEmployees(cols, SubSeq(seed, 1, Len(seed) - 1)),
                               r.employee_id, r.leave_type, r.days_requested, r.status)

Init ==
    /\ columns \in {NewColumns, OldColumns}
    /\ \E seed \in SeedHistories :
          /\ leave_requests = ReplayRequests(seed)
          /\ employees = ReplayEmployees(columns, seed)
    /\ result = None
    /\ call = [op |-> "init"]
    /\ pre_employees = employees
    /\ pre_requests = leave_requests
    /\ n_calls = 0
    /\ sessions = NoSessions

StartDates == {40, 80}
DayCounts == {-1, 2, 4, 10}
NoticeDays == {4, 21}
Statuses == {"approved", "denied"}

\* requests of a known employee who is not a manager
RegularRequests(starts, counts, notices) ==
    \E t \in LeaveTypes, s \in starts, n \in counts, notice \in notices :
        ProcessVacationRequest(RegularId, t, s, s + n - 1, s - notice, FALSE)

\* requests of a manager: who is <<employee_id, is_manager>>, a manager by
\* the id prefix or by the flag
ManagerRequests(whos, counts) ==
    \E who \in whos, t \in LeaveTypes, n \in counts :
        ProcessVacationRequest(who[1], t, 80, 80 + n - 1, 80 - 4, who[2])

\* requests for an employee_id that is not in the table
UnknownRequests(flags) ==
    \E e \in UnknownIds, m \in flags :
        ProcessVacationRequest(e, "vacation", 80, 89, 80 - 4, m)

\* commits by a caller (the APPROVE / DENY buttons, main.py)
CallerRecords(ids, counts) ==
    \E e \in ids, t \in LeaveTypes, n \in counts, st \in Statuses :
        RecordLeaveRequest(e, t, 40, 40 + n - 1, n, st)

(* The ledger under commits, with a few evaluations in between *)
Next ==
    \/ CallerRecords({RegularId, "EMP999"}, {-3, 0, 2, 10})
    \/ ManagerRequests({<<ManagerId, TRUE>>}, {-1, 10})
    \/ RegularRequests({80}, {2, 10}, {21})
    \/ UnknownRequests({FALSE})

Spec == Init /\ [][Next]_vars

(* The orchestrator under many requests *)
NextEval ==
    \/ RegularRequests(StartDates, DayCounts, NoticeDays)
    \/ ManagerRequests({<<ManagerId, FALSE>>, <<RegularId, TRUE>>}, {-1, 10})
    \/ UnknownRequests(BOOLEAN)

SpecEval == Init /\ [][NextEval]_vars

----------------------------------------------------------------------------
(* The rule evaluator called on its own *)

(* a call of PolicyRAG.check_policy_compliance *)
CheckPolicyComplianceCall(leave_type, days_requested, annual_quota_days, notice_days) ==
    LET request_info == [leave_type |-> leave_type, days_requested |-> days_requested,
                         annual_quota_days |-> annual_quota_days, notice_days |-> notice_days]
    IN  /\ call' = [op |-> "check_policy_compliance", request_info |-> request_info]
        /\ result' = CheckPolicyCompliance(request_info)
        /\ pre_employees' = employees
        /\ pre_requests' = leave_requests
        /\ UNCHANGED <<columns, employees, leave_requests, n_calls, sessions>>

(* a call of VacationAgent._check_blackout_periods *)
CheckBlackoutPeriodsCall(start_date, end_date, days_requested) ==
    /\ call' = [op |-> "_check_blackout_periods", start_date |-> start_date,
                end_date |-> end_date, days_requested |-> days_requested]
    /\ result' = CheckBlackoutPeriods(start_date, end_date, days_requested)
    /\ pre_employees' = employees
    /\ pre_requests' = leave_requests
    /\ UNCHANGED <<columns, employees, leave_requests, n_calls, sessions>>

PolicyChecks(types, counts, quotas, notices) ==
    \E t \in types, n \in counts, q \in quotas, notice \in notices :
        CheckPolicyComplianceCall(t, n, q, notice)

\* requests of n days from day s on
BlackoutChecks(starts, counts) ==
    \E s \in starts, n \in counts : CheckBlackoutPeriodsCall(s, s + n - 1, n)

\* request lengths around 60% of a quota of 10 and of 20 days and around the
\* 3-day notice threshold; notices around 5 and 14 days
PolicyDayCounts == 0..13
PolicyQuotas == {10, 20}
PolicyNotices == {4, 5, 13, 14}

\* start days before, at the edges of, inside and after the blackout
\* 2024-03-18 .. 2024-03-31 (days 78 .. 91)
BlackoutStarts == {40, 75, 76, 77, 80, 91, 92}
BlackoutDayCounts == {1, 2, 3, 4}

NextPolicy ==
    \/ PolicyChecks(LeaveTypes, PolicyDayCounts, PolicyQuotas, PolicyNotices)
    \/ BlackoutChecks(BlackoutStarts, BlackoutDayCounts)
    \/ RegularRequests({40}, {2}, NoticeDays)

SpecPolicy == Init /\ [][NextPolicy]_vars

----------------------------------------------------------------------------
(* The frequency rule over histories of long vacations *)

\* approved leave recorded before the run starts: none; one long vacation;
\* two long vacations close together (main.py's demo_frequency_limit); one
\* close and one far away; one approved and one denied; one of EMP001 and
\* two of MGR001
FrequencyHistories ==
    LET long(e, s, n, st) == [employee_id |-> e, leave_type |-> "vacation", start_date |-> s,
                              end_date |-> s + n - 1, days_requested |-> n, status |-> st]
    IN  {<<>>,
         <<long(RegularId, 20, 9, "approved")>>,
         <<long(RegularId, 20, 9, "approved"), long(RegularId, 5, 11, "approved")>>,
         <<long(RegularId, 20, 9, "approved"), long(RegularId, 200, 9, "approved")>>,
         <<long(RegularId, 20, 9, "approved"), long(RegularId, 5, 11, "denied")>>,
         <<long(ManagerId, 20, 9, "approved"), long(RegularId, 20, 9, "approved"),
           long(ManagerId, 5, 11, "approved")>>}

InitFrequency ==
    /\ columns \in {NewColumns, OldColumns}
    /\ \E seed \in FrequencyHistories :
          /\ leave_requests = ReplayRequests(seed)
          /\ employees = ReplayEmployees(columns, seed)
    /\ result = None
    /\ call = [op |-> "init"]
    /\ pre_employees = employees
    /\ pre_requests = leave_requests
    /\ n_calls = 0
    /\ sessions = NoSessions

NextFrequency ==
    \/ RegularRequests({40}, {7, 8, 9}, {21})
    \/ CallerRecords({RegularId, ManagerId}, {7, 10})

SpecFrequency == InitFrequency /\ [][NextFrequency]_vars

----------------------------------------------------------------------------
(* streamlit_app.py: the request form and the approval button of a session *)

\* "Process Request" of a regular employee: the balance check, then the
\* agent's evaluation; the result is kept in the session. An end date before
\* the start date is refused by the form, and for an unknown employee the
\* handler fails on the balance message before anything is stored.
SubmitRequest(s, employee_id, leave_type, start_date, end_date, request_date) ==
    LET days_requested == (end_date - start_date) + 1
        notice_days == start_date - request_date
        employee_info == GetEmployeeInfo(columns, employees, employee_id)
        check == CheckBalanceSufficient(columns, employees, employee_id, days_requested, leave_type)
        response == RegularResponse(columns, employees, leave_requests, employee_info, employee_id, leave_type, start_date, end_date, days_requested, notice_days)
    IN  /\ end_date >= start_date
        /\ ~StartsWithMGR(employee_id)
        /\ ~IsNone(employee_info)
        /\ call' = [op |-> "submit_request", session |-> s,
                    employee_id |-> employee_id, leave_type |-> leave_type,
                    start_date |-> start_date, end_date |-> end_date,
                    request_date |-> request_date]
        /\ result' = response
        /\ sessions' = [sessions EXCEPT ![s] =
                           [employee_id |-> employee_id, leave_type |-> leave_type,
                            start_date |-> start_date, end_date |-> end_date,
                            days_requested |-> days_requested,
                            sufficient |-> check[1],
                            can_be_approved |-> response.can_be_approved,
                            status |-> response.status]]
        /\ pre_employees' = employees
        /\ pre_requests' = leave_requests
        /\ UNCHANGED <<columns, employees, leave_requests, n_calls>>

\* "APPROVE THIS OPTION": records the session's request as approved; the
\* button is disabled once the session's result is approved
ApproveThisOption(s) ==
    /\ ~IsNone(sessions[s])
    /\ sessions[s].status # "approved"
    /\ n_calls < MaxCommits
    /\ n_calls' = n_calls + 1
    /\ LET r == sessions[s]
       IN  /\ call' = [op |-> "approve_option", session |-> s,
                       employee_id |-> r.employee_id, leave_type |-> r.leave_type,
                       start_date |-> r.start_date, end_date |-> r.end_date,
                       days_requested |-> r.days_requested, status |-> "approved"]
           /\ leave_requests' = RecordedRequests(leave_requests, r.employee_id, r.leave_type,
                                                 r.start_date, r.end_date, r.days_requested,
                                                 "approved")
           /\ employees' = RecordedEmployees(columns, employees, r.employee_id, r.leave_type,
                                             r.days_requested, "approved")
    /\ sessions' = [sessions EXCEPT ![s].status = "approved"]
    /\ pre_employees' = employees
    /\ pre_requests' = leave_requests
    /\ result' = None
    /\ UNCHANGED columns

SubmitDayCounts == {4, 7}

\* the requests a session submits
SessionSubmits(s) ==
    \E t \in LeaveTypes, n \in SubmitDayCounts :
        SubmitRequest(s, RegularId, t, 40, 40 + n - 1, 40 - 21)

\* the session's balance check found the balance sufficient
CheckedSufficient(s) == ~IsNone(sessions[s]) /\ sessions[s].sufficient

\* the step before was the session's own submission
JustSubmitted(s) == call.op = "submit_request" /\ call.session = s

(* Two sessions at once, each approving only what its own balance check
   found sufficient *)
NextConcurrent ==
    \E s \in SessionIds :
        \/ SessionSubmits(s)
        \/ CheckedSufficient(s) /\ ApproveThisOption(s)

SpecConcurrent == Init /\ [][NextConcurrent]_vars

(* One flow after the other: every approval directly follows the balance
   check of the same request *)
NextSequential ==
    \E s \in SessionIds :
        \/ SessionSubmits(s)
        \/ JustSubmitted(s) /\ CheckedSufficient(s) /\ ApproveThisOption(s)

SpecSequential == Init /\ [][NextSequential]_vars

----------------------------------------------------------------------------
(* A caller that books what the agent found eligible *)

\* the employees of the booking runs: a full allocation of 20 days
BookingEmployees(cols) ==
    IF cols = NewColumns
    THEN (RegularId :> NewRow(DefaultAnnualQuota)) @@ (ManagerId :> NewRow(ManagerQuota))
    ELSE (RegularId :> OldRow(DefaultAnnualQuota)) @@ (ManagerId :> OldRow(ManagerQuota))

RECURSIVE ReplayBookings(_, _)
ReplayBookings(cols, seed) ==
    IF seed = <<>> THEN BookingEmployees(cols)
    ELSE LET r == seed[Len(seed)]
         IN  RecordedEmployees(cols, ReplayBookings(cols, SubSeq(seed, 1, Len(seed) - 1)),
                               r.employee_id, r.leave_type, r.days_requested, r.status)

\* bookings made before the run starts: none; one long vacation; two
BookingHistories ==
    {<<>>,
     <<[employee_id |-> RegularId, leave_type |-> "vacation", start_date |-> 100,
        end_date |-> 107, days_requested |-> 8, status |-> "approved"]>>,
     <<[employee_id |-> RegularId, leave_type |-> "vacation", start_date |-> 100,
        end_date |-> 107, days_requested |-> 8, status |-> "approved"],
       [employee_id |-> RegularId, leave_type |-> "vacation", start_date |-> 120,
        end_date |-> 127, days_requested |-> 8, status |-> "approved"]>>}

InitBooking ==
    /\ columns \in {NewColumns, OldColumns}
    /\ \E seed \in BookingHistories :
          /\ leave_requests = ReplayRequests(seed)
          /\ employees = ReplayBookings(columns, seed)
    /\ result = None
    /\ call = [op |-> "init"]
    /\ pre_employees = employees
    /\ pre_requests = leave_requests
    /\ n_calls = 0
    /\ sessions = NoSessions

BookingStarts == {100, 120, 140}
BookingDayCounts == {-8, 8}

\* vacation requests made three weeks ahead
BookingRequests ==
    \E s \in BookingStarts, n \in BookingDayCounts :
        ProcessVacationRequest(RegularId, "vacation", s, s + n - 1, s - 21, FALSE)

\* record_leave_request for the request of the evaluation just made, when
\* that evaluation found it eligible
BookEvaluatedRequest ==
    /\ call.op = "process_vacation_request"
    /\ call.employee_id \in DOMAIN employees
    /\ ~IsManagerEmployee(call.employee_id, call.is_manager)
    /\ result.can_be_approved
    /\ n_calls < MaxCommits
    /\ RecordLeaveRequestCall(call.employee_id, call.leave_type, call.start_date, call.end_date, (call.end_date - call.start_date) + 1, "approved")

NextBooking == BookingRequests \/ BookEvaluatedRequest

SpecBooking == InitBooking /\ [][NextBooking]_vars

----------------------------------------------------------------------------
(* reset_balances.py *)

\* reset_employee_balances: remaining_hours from the stored vacation_days
ResetRow(row) ==
    [row EXCEPT !["remaining_hours"] = row["vacation_days"] * HoursPerDay,
                !["vacation_used_hours"] = 0,
                !["sick_used_hours"] = 0,
                !["sick_accrued_hours"] = SickAccruedDefault]

\* main: archive_leave_requests empties leave_requests and commits; then
\* reset_employee_balances updates every row. On a table without a
\* vacation_days column its SELECT fails, and the rollback undoes nothing of
\* the archive step, which is already committed.
ResetBalances ==
    /\ call' = [op |-> "reset_balances"]
    /\ pre_employees' = employees
    /\ pre_requests' = leave_requests
    /\ leave_requests' = <<>>
    /\ employees' = IF "vacation_days" \in columns
                    THEN [e \in DOMAIN employees |-> ResetRow(employees[e])]
                    ELSE employees
    /\ result' = None
    /\ UNCHANGED <<columns, n_calls, sessions>>

NextReset ==
    \/ CallerRecords({RegularId, ManagerId}, {-3, 2, 10})
    \/ ResetBalances

SpecReset == Init /\ [][NextReset]_vars

----------------------------------------------------------------------------
(* Properties *)

LastCallIs(op) == call.op = op

\* the most recent call was process_vacation_request for a known employee
\* who is not a manager
RegularDecision ==
    /\ LastCallIs("process_vacation_request")
    /\ call.employee_id \in DOMAIN pre_employees
    /\ ~IsManagerEmployee(call.employee_id, call.is_manager)

\* ... for a known employee on the manager fast-path
ManagerDecision ==
    /\ LastCallIs("process_vacation_request")
    /\ call.employee_id \in DOMAIN pre_employees
    /\ IsManagerEmployee(call.employee_id, call.is_manager)

CallDays == (call.end_date - call.start_date) + 1
CallNotice == call.start_date - call.request_date

LedgerUnchanged == employees = pre_employees /\ leave_requests = pre_requests

Clamp(x, lo, hi) == Min(Max(x, lo), hi)

\* the remaining hours of a row before any clamp of the read
UnclampedRemaining(cols, row, leave_type) ==
    IF leave_type = "vacation" /\ "remaining_hours" \in cols
    THEN row["remaining_hours"]
    ELSE IF leave_type = "vacation"
         THEN row["vacation_accrued_hours"] - row["vacation_used_hours"]
         ELSE row["sick_accrued_hours"] - row["sick_used_hours"]

\* C1: for every employee and leave type, the remaining_hours reported by
\* get_remaining_balance is at least 0 and at most annual_quota_days * 8,
\* after any commits and evaluations.
C1_RemainingWithinQuota ==
    \A e \in DOMAIN employees : \A t \in LeaveTypes :
        LET b == GetRemainingBalance(columns, employees, e, t)
        IN  0 <= b.remaining_hours /\ b.remaining_hours <= b.annual_quota_days * HoursPerDay

\* an approved commit of a known employee whose hours, subtracted from the
\* balance, leave the range [0, quota]
C1_Witness ==
    /\ LastCallIs("record_leave_request")
    /\ call.status = "approved"
    /\ call.employee_id \in DOMAIN pre_employees
    /\ LET before == GetRemainingBalance(columns, pre_employees, call.employee_id, call.leave_type)
           after == before.remaining_hours - call.days_requested * HoursPerDay
       IN  after < 0 \/ after > before.annual_quota_hours

\* C2: record_leave_request for a known employee changes the balance iff the
\* status is "approved": an approved request of d days raises the used hours
\* of its leave type by 8*d and lowers the remaining hours by 8*d (the
\* reported value is that difference clamped to [0, quota hours]); a denied
\* request leaves the reported balance of both leave types as it was.
C2_BalanceChangesIffApproved ==
    (LastCallIs("record_leave_request") /\ call.employee_id \in DOMAIN pre_employees) =>
        LET e == call.employee_id
            hours == call.days_requested * HoursPerDay
            now == GetRemainingBalance(columns, employees, e, call.leave_type)
            before == GetRemainingBalance(columns, pre_employees, e, call.leave_type)
            raw == UnclampedRemaining(columns, pre_employees[e], call.leave_type)
        IN  IF call.status = "approved"
            THEN /\ now.used_hours = before.used_hours + hours
                 /\ now.remaining_hours = Clamp(raw - hours, 0, before.annual_quota_hours)
            ELSE \A t \in LeaveTypes :
                     GetRemainingBalance(columns, employees, e, t)
                         = GetRemainingBalance(columns, pre_employees, e, t)

\* an approved commit of a positive number of days that lowered the balance
C2_Witness ==
    /\ LastCallIs("record_leave_request")
    /\ call.status = "approved"
    /\ call.days_requested > 0
    /\ call.employee_id \in DOMAIN pre_employees
    /\ GetRemainingBalance(columns, employees, call.employee_id, call.leave_type).remaining_hours
           < GetRemainingBalance(columns, pre_employees, call.employee_id,
                                 call.leave_type).remaining_hours

\* C3: process_vacation_request for a known employee who is not a manager
\* leaves the employees table and the leave_requests table unchanged.
C3_EvaluationHasNoSideEffect == RegularDecision => LedgerUnchanged

\* a regular request that was found not eligible and got options
C3_Witness ==
    /\ RegularDecision
    /\ ~result.can_be_approved
    /\ result.options # <<>>

\* C4: the decision for a known employee who is not a manager has status
\* "pending", eligible or not; a decision with status "approved", and a
\* commit by process_vacation_request, come from the manager fast-path only.
C4_RegularDecisionIsPending ==
    LastCallIs("process_vacation_request") =>
        /\ RegularDecision => result.status = "pending"
        /\ result.status = "approved" => ManagerDecision
        /\ ~LedgerUnchanged => ManagerDecision

\* an eligible regular request, returned as pending
C4_Witness ==
    /\ RegularDecision
    /\ result.can_be_approved
    /\ result.status = "pending"

\* what the regular branch would have answered to the most recent request,
\* on the tables as they were before it
SkippedChecks ==
    RegularResponse(columns, pre_employees, pre_requests,
                    GetEmployeeInfo(columns, pre_employees, call.employee_id),
                    call.employee_id, call.leave_type, call.start_date, call.end_date,
                    CallDays, CallNotice)

\* C5: on the manager fast-path (known employee, is_manager true or an id
\* starting with "MGR") process_vacation_request appends exactly one approved
\* leave record for the requested days, debits the balance by days_requested
\* (used hours rise by 8*d, remaining hours fall by 8*d within [0, quota]),
\* and returns status "approved" with empty violations, warnings and options
\* and the balance read after the debit, whatever the skipped checks would
\* have found.
C5_ManagerFastPath ==
    ManagerDecision =>
        LET e == call.employee_id
            t == call.leave_type
            hours == CallDays * HoursPerDay
            now == GetRemainingBalance(columns, employees, e, t)
            before == GetRemainingBalance(columns, pre_employees, e, t)
            raw == UnclampedRemaining(columns, pre_employees[e], t)
            last == leave_requests[Len(leave_requests)]
        IN  /\ Len(leave_requests) = Len(pre_requests) + 1
            /\ SubSeq(leave_requests, 1, Len(pre_requests)) = pre_requests
            /\ last.employee_id = e /\ last.leave_type = t
            /\ last.status = "approved" /\ last.days_requested = CallDays
            /\ now.used_hours = before.used_hours + hours
            /\ now.remaining_hours = Clamp(raw - hours, 0, before.annual_quota_hours)
            /\ result.status = "approved"
            /\ result.violations = <<>> /\ result.warnings = <<>> /\ result.options = <<>>
            /\ result.balance_info.remaining_hours = now.remaining_hours
            /\ result.balance_info.remaining_days = now.remaining_days
            /\ result.balance_info.annual_quota_days = now.annual_quota_days

\* a manager request the regular branch would have found not eligible, and
\* whose debit changed the balance
C5_Witness ==
    /\ ManagerDecision
    /\ ~SkippedChecks.can_be_approved
    /\ SkippedChecks.violations # <<>>
    /\ GetRemainingBalance(columns, employees, call.employee_id, call.leave_type).remaining_hours
           < GetRemainingBalance(columns, pre_employees, call.employee_id,
                                 call.leave_type).remaining_hours

\* the four conjuncts of eligibility, each computed from the request and the
\* tables as they were when it was evaluated
CallSufficient ==
    GetRemainingBalance(columns, pre_employees, call.employee_id, call.leave_type).remaining_hours
        >= CallDays * HoursPerDay

CallCompliant ==
    CheckPolicyCompliance(
        [employee_id |-> call.employee_id, leave_type |-> call.leave_type,
         days_requested |-> CallDays, start_date |-> call.start_date,
         end_date |-> call.end_date,
         annual_quota_days |->
             GetRemainingBalance(columns, pre_employees, call.employee_id,
                                 call.leave_type).annual_quota_days,
         notice_days |-> CallNotice]).compliant

CallBlackout == ~IsNone(CheckBlackoutPeriods(call.start_date, call.end_date, CallDays))

CallFrequency ==
    /\ call.leave_type = "vacation"
    /\ CallDays > LongVacationDays
    /\ ~IsNone(CheckFrequencyLimits(pre_requests, call.employee_id, call.start_date,
                                    call.end_date))

\* C6: for every non-manager decision, can_be_approved is true exactly when
\* the balance is sufficient (remaining_hours >= days_requested * 8), the rule
\* evaluator reports compliant, there is no blackout violation and there is
\* no frequency violation.
C6_EligibilityIsConjunction ==
    RegularDecision =>
        (result.can_be_approved
            <=> (CallSufficient /\ CallCompliant /\ ~CallBlackout /\ ~CallFrequency))

\* a request that only the blackout period keeps from being eligible
C6_Witness ==
    /\ RegularDecision
    /\ CallSufficient /\ CallCompliant /\ CallBlackout /\ ~CallFrequency
    /\ ~result.can_be_approved

\* C7: for an employee_id that is not in the ledger, with or without the
\* manager flag or the "MGR" prefix, process_vacation_request returns an
\* error object with status "error" and no options, violations, warnings or
\* balance information, and leaves balances and history unchanged.
C7_UnknownEmployeeIsError ==
    (LastCallIs("process_vacation_request") /\ call.employee_id \notin DOMAIN pre_employees) =>
        /\ result.status = "error"
        /\ DOMAIN result \cap {"options", "violations", "warnings", "balance_info"} = {}
        /\ LedgerUnchanged

\* an unknown id with the "MGR" prefix, asked with the manager flag
C7_Witness ==
    /\ LastCallIs("process_vacation_request")
    /\ call.employee_id \notin DOMAIN pre_employees
    /\ StartsWithMGR(call.employee_id)
    /\ call.is_manager
    /\ result.status = "error"

\* C8: a request whose end_date is before its start_date is rejected by
\* process_vacation_request before any rule is evaluated and before anything
\* is committed: no leave record is appended, no balance changes, and the
\* answer is neither an approval nor a pending decision, on the regular path
\* and on the manager fast-path alike.
C8_InvalidRangeRejected ==
    (LastCallIs("process_vacation_request")
        /\ call.employee_id \in DOMAIN pre_employees
        /\ call.end_date < call.start_date) =>
        /\ LedgerUnchanged
        /\ result.status \notin {"approved", "pending"}

\* C9: record_leave_request with an employee_id that is not in the employees
\* table appends no leave-request record and changes no balance.
C9_UnknownEmployeeNoPartialEffect ==
    (LastCallIs("record_leave_request") /\ call.employee_id \notin DOMAIN pre_employees) =>
        LedgerUnchanged

\* a violation that is none of the four policy rules, as a violation for an
\* insufficient balance would be
IsBalanceViolation(v) ==
    Get(v, "rule", "") \notin {Rule60, RuleNotice, RuleBlackout, RuleFrequency}

InSeq(seq, P(_)) == \E i \in 1..Len(seq) : P(seq[i])

\* C10: when a non-manager vacation request both exceeds the remaining
\* balance and exceeds 60% of the annual quota, the violations of the
\* decision contain an insufficient-balance violation as well as the 60%
\* violation, and its options contain a reduce-to-remaining-days option and a
\* deny option.
C10_AllViolationsReported ==
    (RegularDecision
        /\ call.leave_type = "vacation"
        /\ ~CallSufficient
        /\ CallDays * 10
             > SixtyPercentTenths
               * GetRemainingBalance(columns, pre_employees, call.employee_id,
                                     "vacation").annual_quota_days) =>
        /\ InSeq(result.violations, IsBalanceViolation)
        /\ InSeq(result.violations, LAMBDA v : Get(v, "rule", "") = Rule60)
        /\ InSeq(result.options, LAMBDA o : o.type = "reduce")
        /\ InSeq(result.options, LAMBDA o : o.type = "deny")

\* C11: in every reachable ledger state and for both leave types, the
\* balance returned by get_remaining_balance has remaining_hours equal to
\* accrued_hours - used_hours clamped to [0, annual_quota_hours], also after
\* approved vacation requests have been recorded.
C11_RemainingIsAccruedMinusUsed ==
    \A e \in DOMAIN employees : \A t \in LeaveTypes :
        LET b == GetRemainingBalance(columns, employees, e, t)
        IN  b.remaining_hours = Clamp(b.accrued_hours - b.used_hours, 0, b.annual_quota_hours)

\* C12: after any sequence of balance updates, used_hours of each leave
\* type stays within [0, annual_quota_hours].
C12_UsedWithinQuota ==
    \A e \in DOMAIN employees : \A t \in LeaveTypes :
        LET b == GetRemainingBalance(columns, employees, e, t)
        IN  0 <= b.used_hours /\ b.used_hours <= b.annual_quota_hours

\* numbers of days for a debit that a credit then takes back
RoundTripDays == {1, 3, 10}

UpdatingCall == LastCallIs("record_leave_request") \/ LastCallIs("process_vacation_request")

\* C14: a balance update for employee e and leave type t leaves unchanged
\* the reported balance (remaining, accrued, used) of e's other leave type
\* and every balance of every other employee.
C14_UpdateIsLocal ==
    UpdatingCall =>
        /\ DOMAIN employees = DOMAIN pre_employees
        /\ \A e \in DOMAIN pre_employees : \A t \in LeaveTypes :
               (e # call.employee_id \/ t # call.leave_type) =>
                   GetRemainingBalance(columns, employees, e, t)
                       = GetRemainingBalance(columns, pre_employees, e, t)

\* an approved sick commit that changed the sick balance of its employee
C14_Witness ==
    /\ LastCallIs("record_leave_request")
    /\ call.status = "approved"
    /\ call.leave_type = "sick"
    /\ call.employee_id \in DOMAIN pre_employees
    /\ GetRemainingBalance(columns, employees, call.employee_id, "sick")
           # GetRemainingBalance(columns, pre_employees, call.employee_id, "sick")

\* the request_info of the most recent check_policy_compliance call
PolicyCall == LastCallIs("check_policy_compliance")
PolicyDays == call.request_info.days_requested
PolicyQuota == call.request_info.annual_quota_days
PolicyNotice == call.request_info.notice_days

WithRule(seq, rule) == SelectSeq(seq, LAMBDA v : v.rule = rule)

\* C15: check_policy_compliance reports a blocking 60% violation, carrying
\* maximum = 0.6 * annual_quota_days (kept in tenths of a day) and the days
\* requested, exactly when leave_type is vacation and days_requested is more
\* than 0.6 * annual_quota_days; a sick request never gets this violation.
C15_SixtyPercentRule ==
    PolicyCall =>
        LET over == call.request_info.leave_type = "vacation"
                    /\ PolicyDays * 10 > PolicyQuota * 6
            found == WithRule(result.violations, Rule60)
        IN  /\ Len(found) = IF over THEN 1 ELSE 0
            /\ over => /\ found[1].maximum = PolicyQuota * 6
                       /\ found[1].requested = PolicyDays
                       /\ ~result.compliant
            /\ WithRule(result.warnings, Rule60) = <<>>

\* quota 10: seven days of vacation are refused with a maximum of 6.0 days
C15_Witness ==
    /\ PolicyCall
    /\ call.request_info.leave_type = "vacation"
    /\ PolicyQuota = 10 /\ PolicyDays = 7
    /\ WithRule(result.violations, Rule60) # <<>>
    /\ WithRule(result.violations, Rule60)[1].maximum = 60

\* C16: check_policy_compliance reports a blocking notice violation, with
\* required 14 and the notice provided, exactly when days_requested > 3 and
\* notice_days < 14, and a non-blocking notice warning exactly when
\* 1 <= days_requested <= 3 and notice_days < 5.
C16_NoticeRule ==
    PolicyCall =>
        LET late == PolicyDays > 3 /\ PolicyNotice < 14
            short == 1 <= PolicyDays /\ PolicyDays <= 3 /\ PolicyNotice < 5
            violations == WithRule(result.violations, RuleNotice)
            warnings == WithRule(result.warnings, RuleNotice)
        IN  /\ Len(violations) = IF late THEN 1 ELSE 0
            /\ late => /\ violations[1].required = 14
                       /\ violations[1].notice_provided = PolicyNotice
                       /\ ~result.compliant
            /\ Len(warnings) = IF short THEN 1 ELSE 0
            /\ short => /\ warnings[1].type = "warning"
                        /\ warnings[1].notice_provided = PolicyNotice

\* four days asked 13 days ahead: a blocking notice violation
C16_Witness ==
    /\ PolicyCall
    /\ PolicyDays = 4 /\ PolicyNotice = 13
    /\ WithRule(result.violations, RuleNotice) # <<>>
    /\ ~result.compliant

\* C17: the compliant flag of check_policy_compliance is true iff its list
\* of blocking violations is empty, and a request whose only finding is a
\* short-notice warning, with sufficient balance and no blackout or
\* frequency violation, is eligible.
C17_WarningsNeverBlock ==
    /\ PolicyCall => (result.compliant <=> result.violations = <<>>)
    /\ (RegularDecision /\ CallSufficient /\ ~CallBlackout /\ ~CallFrequency
            /\ WithRule(result.violations, Rule60) = <<>>
            /\ \A i \in 1..Len(result.violations) :
                   Get(result.violations[i], "type", "") = "warning")
           => result.can_be_approved

\* an eligible request that carries a short-notice warning
C17_Witness ==
    /\ RegularDecision
    /\ result.can_be_approved
    /\ result.warnings # <<>>
    /\ result.warnings[1].rule = RuleNotice

\* some blackout period overlaps [start_date, end_date], ends included
OverlapsBlackout(start_date, end_date) ==
    \E i \in 1..Len(BlackoutPeriods) :
        /\ start_date <= ParseDate(BlackoutPeriods[i].end)
        /\ end_date >= ParseDate(BlackoutPeriods[i].start)

\* C18: a request gets a blocking blackout violation exactly when
\* days_requested >= 3 and its interval overlaps some blackout interval
\* under the inclusive test; a request of fewer than 3 days never does, even
\* inside a blackout window.
C18_BlackoutRule ==
    LastCallIs("_check_blackout_periods") =>
        /\ ~IsNone(result)
               <=> (call.days_requested >= 3 /\ OverlapsBlackout(call.start_date, call.end_date))
        /\ ~IsNone(result) => result.rule = RuleBlackout

\* two days inside the Q1 blackout: exempt
C18_Witness ==
    /\ LastCallIs("_check_blackout_periods")
    /\ call.days_requested = 2
    /\ call.start_date = 80 /\ call.end_date = 81
    /\ IsNone(result)

\* the approved long vacations of employee_id in reqs that overlap, ends
\* included, the window from 60 days before start_date to 60 days after
\* end_date
NearbyLong(reqs, employee_id, start_date, end_date) ==
    {i \in 1..Len(reqs) :
        /\ reqs[i].employee_id = employee_id
        /\ reqs[i].leave_type = "vacation"
        /\ reqs[i].status = "approved"
        /\ reqs[i].days_requested > 7
        /\ ParseDate(reqs[i].start_date) <= end_date + 60
        /\ ParseDate(reqs[i].end_date) >= start_date - 60}

CallNearbyLong ==
    Cardinality(NearbyLong(pre_requests, call.employee_id, call.start_date, call.end_date))

\* C19: for a vacation request of more than 7 days, a blocking frequency
\* violation is reported exactly when at least 2 of the employee's approved
\* long vacations overlap the window [start_date - 60, end_date + 60]; it
\* reports existing_count equal to that number and limit 2; with only one
\* such vacation there is no frequency violation.
C19_FrequencyRule ==
    (RegularDecision /\ call.leave_type = "vacation" /\ CallDays > 7) =>
        LET found == WithRule(result.violations, RuleFrequency)
        IN  /\ Len(found) = IF CallNearbyLong >= 2 THEN 1 ELSE 0
            /\ CallNearbyLong >= 2 => /\ found[1].existing_count = CallNearbyLong
                                      /\ found[1].limit = 2
                                      /\ ~result.can_be_approved

\* a nine-day request after two long vacations close by
C19_Witness ==
    /\ RegularDecision
    /\ call.leave_type = "vacation" /\ CallDays = 9
    /\ CallNearbyLong = 2
    /\ WithRule(result.violations, RuleFrequency) # <<>>
    /\ WithRule(result.violations, RuleFrequency)[1].existing_count = 2

\* the candidates whose frequency outcome is compared before and after a
\* record: long vacations of either employee, early and late in the year
FrequencyProbes == {RegularId, ManagerId} \X {40, 250} \X {8, 9}

\* C20: a candidate of 7 days or fewer, or a sick request, never gets a
\* frequency violation, whatever the history; and recording a denied
\* request, a sick request, a vacation request of 7 days or fewer, or any
\* request of another employee does not change the frequency outcome of a
\* later evaluation.
C20_FrequencyDependsOnLongApprovedOnly ==
    /\ (RegularDecision /\ (call.leave_type = "sick" \/ CallDays <= 7))
           => WithRule(result.violations, RuleFrequency) = <<>>
    /\ LastCallIs("record_leave_request") =>
           \A probe \in FrequencyProbes :
               (\/ call.status # "approved"
                \/ call.leave_type # "vacation"
                \/ call.days_requested <= 7
                \/ call.employee_id # probe[1]) =>
                   CheckFrequencyLimits(leave_requests, probe[1], probe[2],
                                        probe[2] + probe[3] - 1)
                       = CheckFrequencyLimits(pre_requests, probe[1], probe[2],
                                              probe[2] + probe[3] - 1)

\* a denied long vacation recorded next to one approved long vacation: a
\* later nine-day candidate still has no frequency violation
C20_Witness ==
    /\ LastCallIs("record_leave_request")
    /\ call.status = "denied" /\ call.leave_type = "vacation" /\ call.days_requested > 7
    /\ Cardinality(NearbyLong(pre_requests, call.employee_id, 40, 48)) = 1
    /\ IsNone(CheckFrequencyLimits(leave_requests, call.employee_id, 40, 48))

\* C21: in every non-manager decision the options list is empty if the
\* request is eligible; if it is not eligible the list, after the removal of
\* duplicates, is non-empty and contains a deny option.
C21_OptionsOnlyWhenNotEligible ==
    RegularDecision =>
        IF result.can_be_approved
        THEN result.options = <<>>
        ELSE /\ result.options # <<>>
             /\ InSeq(result.options, LAMBDA o : o.type = "deny")

\* a decision that is not eligible, with alternatives and a closing deny option
C21_Witness ==
    /\ RegularDecision
    /\ ~result.can_be_approved
    /\ Len(result.options) >= 3
    /\ result.options[Len(result.options)].type = "deny"

ShiftTexts ==
    {"Shift start date {days_needed} days later to meet {required}-day notice requirement",
     "Shift dates to avoid blackout period"}

SplitTexts ==
    {"Split into two separate requests (e.g., {max_days} days now, {rest} days later)"}

\* the options hold an alternative for violation v whose text is one of texts
HasAlternative(options, v, texts) ==
    InSeq(options, LAMBDA o : /\ o.type = "modify"
                              /\ o.consequence = <<"Addresses", v.rule>>
                              /\ o.description[1] \in texts)

\* the alternatives of the stated kind for the violations of rules, and the
\* two balance options when the balance is insufficient
AlternativesFor(rules) ==
    /\ \A i \in 1..Len(result.violations) :
           LET v == result.violations[i]
           IN  (Get(v, "type", "") # "warning" /\ v.rule \in rules) =>
                   HasAlternative(result.options, v,
                                  IF v.rule \in {RuleNotice, RuleBlackout} THEN ShiftTexts
                                                                           ELSE SplitTexts)
    /\ ~CallSufficient => /\ InSeq(result.options, LAMBDA o : o.type = "reduce")
                          /\ InSeq(result.options, LAMBDA o : o.type = "delay")

\* C22: for every blocking violation in a decision that is not eligible, the
\* options contain a shift-dates alternative (notice, blackout) or a
\* split-request alternative (60% rule, frequency) for it; when the balance
\* is insufficient they also contain a reduce-to-available-balance and a
\* wait-to-accrue option.
C22_RuleSpecificAlternatives ==
    (RegularDecision /\ ~result.can_be_approved) =>
        AlternativesFor({Rule60, RuleNotice, RuleBlackout, RuleFrequency})

ReplayedRemaining(cols, e) ==
    GetRemainingBalance(cols, ReplayEmployees(cols, leave_requests), e, "vacation").remaining_hours

\* C25: starting from the same vacation balance and applying the same
\* sequence of balance updates (positive and negative days, including ones
\* that hit the clamps), the remaining_hours reported under the accrued/used
\* schema equal the remaining_hours reported under the remaining_hours-column
\* schema after every step.
C25_SchemasAgree ==
    \A e \in {RegularId, ManagerId} :
        ReplayedRemaining(OldColumns, e) = ReplayedRemaining(NewColumns, e)

\* C26: every record_leave_request call appends exactly one record, whose
\* hours_requested equals days_requested * 8, and no evaluation or
\* record_leave_request call modifies or removes a record that is already
\* in the history.
C26_HistoryIsAppendOnly ==
    /\ UpdatingCall =>
           /\ Len(leave_requests) >= Len(pre_requests)
           /\ SubSeq(leave_requests, 1, Len(pre_requests)) = pre_requests
    /\ LastCallIs("record_leave_request") =>
           /\ Len(leave_requests) = Len(pre_requests) + 1
           /\ LET r == leave_requests[Len(leave_requests)]
              IN  /\ r.hours_requested = call.days_requested * HoursPerDay
                  /\ r.days_requested = call.days_requested
                  /\ r.employee_id = call.employee_id
                  /\ r.leave_type = call.leave_type
                  /\ r.status = call.status
    /\ RegularDecision => leave_requests = pre_requests

\* a record_leave_request call on a history that already held two records
C26_Witness ==
    /\ LastCallIs("record_leave_request")
    /\ Len(pre_requests) = 2
    /\ Len(leave_requests) = 3
    /\ call.days_requested = 10

RECURSIVE ApprovedHours(_, _, _)
\* the hours of the approved records of reqs for employee e and leave type t
ApprovedHours(reqs, e, t) ==
    IF reqs = <<>> THEN 0
    ELSE LET r == Head(reqs)
         IN  (IF r.employee_id = e /\ r.leave_type = t /\ r.status = "approved"
              THEN r.hours_requested ELSE 0)
             + ApprovedHours(Tail(reqs), e, t)

\* the records committed from the sessions, and the ledger before them
FlowRecords == SubSeq(leave_requests, Len(leave_requests) - n_calls + 1, Len(leave_requests))
LedgerBeforeFlows ==
    ReplayEmployees(columns, SubSeq(leave_requests, 1, Len(leave_requests) - n_calls))

RemainingBeforeFlows(e, t) ==
    GetRemainingBalance(columns, LedgerBeforeFlows, e, t).remaining_hours

\* C24: in every interleaving of two evaluate-then-commit flows for one
\* employee and leave type, where each flow records its request as approved
\* only if its own balance check returned sufficient, the total hours
\* recorded as approved never exceed the remaining hours available before
\* the two flows began.
C24_ConcurrentCommitsSerialize ==
    n_calls <= 2 =>
        \A t \in LeaveTypes :
            ApprovedHours(FlowRecords, RegularId, t) <= RemainingBeforeFlows(RegularId, t)

\* C28: in a sequential run from in-bounds balances where every approved
\* commit is for a positive number of days and directly follows a balance
\* check of the same request that returned sufficient, the zero floor is never
\* applied: after each commit remaining_hours equals the remaining_hours
\* before it minus days_requested * 8, and the hours of all approved requests
\* of an employee and leave type never exceed the initial remaining hours.
C28_FloorNeverApplied ==
    /\ LastCallIs("approve_option") =>
           /\ call.days_requested > 0
           /\ GetRemainingBalance(columns, employees, call.employee_id, call.leave_type).remaining_hours
                  = GetRemainingBalance(columns, pre_employees, call.employee_id, call.leave_type).remaining_hours
                        - call.days_requested * HoursPerDay
           /\ UnclampedRemaining(columns, pre_employees[call.employee_id], call.leave_type)
                  - call.days_requested * HoursPerDay >= 0
    /\ \A t \in LeaveTypes :
           ApprovedHours(FlowRecords, RegularId, t) <= RemainingBeforeFlows(RegularId, t)

\* the second approval of a run uses up the last 32 sick hours
C28_Witness ==
    /\ LastCallIs("approve_option")
    /\ n_calls = 2
    /\ call.leave_type = "sick"
    /\ call.days_requested = 4
    /\ GetRemainingBalance(columns, employees, RegularId, "sick").remaining_hours = 0
    /\ RemainingBeforeFlows(RegularId, "sick") = 64

\* the approved long vacations of employee e in the history
LongApproved(e) ==
    {i \in 1..Len(leave_requests) :
        /\ leave_requests[i].employee_id = e
        /\ leave_requests[i].leave_type = "vacation"
        /\ leave_requests[i].status = "approved"
        /\ leave_requests[i].days_requested > 7}

\* some window of 60 consecutive days meets each of the three records
ShareWindow(i, j, k) ==
    LET starts == {ParseDate(leave_requests[x].start_date) : x \in {i, j, k}}
        ends == {ParseDate(leave_requests[x].end_date) : x \in {i, j, k}}
    IN  \E w \in 1..366 :
            /\ \A st \in starts : st <= w + 59
            /\ \A en \in ends : en >= w

\* C27: when each approved vacation commit of a non-manager employee
\* directly follows an evaluation of that same request that returned
\* eligible, the employee never has three approved long vacations (more than
\* 7 days each) that all intersect one common 60-day window.
C27_FrequencyCapHolds ==
    \A i, j, k \in LongApproved(RegularId) :
        (i < j /\ j < k) => ~ShareWindow(i, j, k)

\* a third long vacation, affordable after a restoration, that the
\* evaluation refuses for the frequency limit alone
C27_Witness ==
    /\ RegularDecision
    /\ n_calls >= 1
    /\ CallDays = 8
    /\ CallSufficient
    /\ Cardinality(LongApproved(RegularId)) = 2
    /\ ~result.can_be_approved
    /\ Len(result.violations) = 1
    /\ result.violations[1].rule = RuleFrequency

\* every record of the history before the call is an approved vacation
OnlyApprovedVacationsBefore ==
    \A i \in 1..Len(pre_requests) :
        pre_requests[i].status = "approved" /\ pre_requests[i].leave_type = "vacation"

\* C29: after any sequence of approved vacation commits followed by a reset,
\* every employee's remaining vacation hours equal the vacation allocation
\* the employee had before those commits, the used hours of both leave types
\* are 0, the sick accrual is 64 hours, and the live leave history is empty.
C29_ResetRestoresAllocation ==
    (LastCallIs("reset_balances") /\ OnlyApprovedVacationsBefore) =>
        /\ leave_requests = <<>>
        /\ \A e \in DOMAIN employees :
               LET vacation == GetRemainingBalance(columns, employees, e, "vacation")
                   sick == GetRemainingBalance(columns, employees, e, "sick")
                   allocation == GetRemainingBalance(columns, FreshEmployees(columns), e, "vacation")
               IN  /\ vacation.remaining_hours = allocation.remaining_hours
                   /\ vacation.used_hours = 0
                   /\ sick.used_hours = 0
                   /\ sick.accrued_hours = SickAccruedDefault

\* the analysis checks of the decision
HasCheck(name, status) ==
    InSeq(result.analysis_checks, LAMBDA c : c.check = name /\ c.status = status)

\* C30: whenever a non-manager request is not eligible at least one analysis
\* check has status FAIL, and the Notice Period check is PASS only when the
\* request has neither a blocking notice violation nor a notice warning.
C30_ChecksAgreeWithEligibility ==
    RegularDecision =>
        /\ ~result.can_be_approved =>
               InSeq(result.analysis_checks, LAMBDA c : c.status = "FAIL")
        /\ HasCheck("Notice Period", "PASS") =>
               /\ ~InSeq(result.violations, LAMBDA v : v.rule = RuleNotice)
               /\ ~InSeq(result.warnings, LAMBDA v : v.rule = RuleNotice)

====
